---- MODULE Spec2Model ----
(***************************************************************************)
(* Model of src/authors_works_aggregate.py: normalize_name and the         *)
(* streaming / finalization phases of aggregate_authors.                   *)
(*                                                                         *)
(* Python strings are modelled as sequences of characters; a character is  *)
(* a one-element TLA+ string, or a token naming one code point             *)
(* ("e_acute" is U+00E9, "E_ACUTE" is U+00C9, "COMB_ACUTE" is U+0301,      *)
(* "TAB" is U+0009).  Python sets are TLA+ sets, dicts are functions.      *)
(***************************************************************************)
EXTENDS Integers, Sequences, FiniteSets, TLC

VARIABLES
    pc,                          \* position in aggregate_authors
    rows_read,                   \* history: the rows the reader has yielded so far
    resolved,                    \* history: per row read, its group id or SKIPPED
    row_count,
    author_id_to_group_id,
    normalized_name_to_group_id,
    group_id_counter,
    group_names,
    author_data,
    output_rows,
    filtered_count,
    out_file,                    \* OUTPUT_FILE on disk: whether it exists, its lines
    nm_in,                       \* normalize_name: the argument
    nm_out,                      \* normalize_name: returned value, applied once
    nm_out2,                     \* normalize_name applied to the returned value
    nm_pc

aggVars == <<pc, rows_read, resolved, row_count, author_id_to_group_id,
             normalized_name_to_group_id, group_id_counter, group_names,
             author_data, output_rows, filtered_count, out_file>>
nmVars == <<nm_in, nm_out, nm_out2, nm_pc>>
vars == <<aggVars, nmVars>>

----------------------------------------------------------------------------
(* Bounds of the model *)

\* number of rows the reader yields in one run
MaxRows == 3
\* length of the strings normalize_name is applied to in NormSpec
MaxNameLen == 3

----------------------------------------------------------------------------
(* Characters *)

UPPER == <<"A","B","C","D","E","F","G","H","I","J","K","L","M",
           "N","O","P","Q","R","S","T","U","V","W","X","Y","Z">>
LOWER == <<"a","b","c","d","e","f","g","h","i","j","k","l","m",
           "n","o","p","q","r","s","t","u","v","w","x","y","z">>
DIGITS == <<"0","1","2","3","4","5","6","7","8","9">>

Range(s) == {s[i] : i \in DOMAIN s}
IndexOf(s, c) == CHOOSE i \in DOMAIN s : s[i] = c

IsUpper(c) == c \in Range(UPPER) \/ c = "E_ACUTE"
IsLowerLetter(c) == c \in Range(LOWER) \/ c = "e_acute"
IsDigit(c) == c \in Range(DIGITS)
DigitValue(c) == IndexOf(DIGITS, c) - 1

\* str.isspace / the regex class \s
IsSpace(c) == c \in {" ", "TAB"}
\* the regex class \w: alphanumerics and the underscore
IsWord(c) == IsUpper(c) \/ IsLowerLetter(c) \/ IsDigit(c) \/ c = "_"
\* unicodedata.combining(c) != 0
IsCombining(c) == c = "COMB_ACUTE"

\* str.lower on one character
LowerChar(c) ==
    IF c \in Range(UPPER) THEN LOWER[IndexOf(UPPER, c)]
    ELSE IF c = "E_ACUTE" THEN "e_acute"
    ELSE c
\* str.upper on one character
UpperChar(c) ==
    IF c \in Range(LOWER) THEN UPPER[IndexOf(LOWER, c)]
    ELSE IF c = "e_acute" THEN "E_ACUTE"
    ELSE c

\* the code point of a character (Python compares strings by code point)
CodePoint(c) ==
    IF c \in Range(UPPER) THEN 64 + IndexOf(UPPER, c)
    ELSE IF c \in Range(LOWER) THEN 96 + IndexOf(LOWER, c)
    ELSE IF IsDigit(c) THEN 48 + DigitValue(c)
    ELSE CASE c = "TAB" -> 9
           [] c = " " -> 32
           [] c = "'" -> 39
           [] c = "+" -> 43
           [] c = "-" -> 45
           [] c = "." -> 46
           [] c = ";" -> 59
           [] c = "_" -> 95
           [] c = "E_ACUTE" -> 201
           [] c = "e_acute" -> 233
           [] c = "COMB_ACUTE" -> 769

\* s < t for Python strings
RECURSIVE StrLess(_, _)
StrLess(s, t) ==
    IF t = <<>> THEN FALSE
    ELSE IF s = <<>> THEN TRUE
    ELSE IF CodePoint(Head(s)) # CodePoint(Head(t))
         THEN CodePoint(Head(s)) < CodePoint(Head(t))
    ELSE StrLess(Tail(s), Tail(t))

Lower(s) == [i \in DOMAIN s |-> LowerChar(s[i])]

RECURSIVE LStrip(_)
LStrip(s) == IF s # <<>> /\ IsSpace(Head(s)) THEN LStrip(Tail(s)) ELSE s
RECURSIVE RStrip(_)
RStrip(s) ==
    IF s # <<>> /\ IsSpace(s[Len(s)]) THEN RStrip(SubSeq(s, 1, Len(s) - 1)) ELSE s
\* str.strip()
Strip(s) == RStrip(LStrip(s))

----------------------------------------------------------------------------
(* normalize_name *)

\* the NFKD decomposition of one character
DecomposeChar(c) ==
    CASE c = "e_acute" -> <<"e", "COMB_ACUTE">>
      [] c = "E_ACUTE" -> <<"E", "COMB_ACUTE">>
      [] OTHER -> <<c>>

\* unicodedata.normalize('NFKD', name)
RECURSIVE NFKD(_)
NFKD(s) == IF s = <<>> THEN <<>> ELSE DecomposeChar(Head(s)) \o NFKD(Tail(s))

NotCombining(c) == ~IsCombining(c)
\* ''.join(c for c in name if not unicodedata.combining(c))
DropCombining(s) == SelectSeq(s, NotCombining)

KeptByPunctFilter(c) == IsWord(c) \/ IsSpace(c) \/ c = "-"
\* re.sub(r'[^\w\s-]', '', name)
RemovePunct(s) == SelectSeq(s, KeptByPunctFilter)

IsSeparator(c) == c = "-" \/ IsSpace(c)
RECURSIVE DropSeparators(_)
DropSeparators(s) ==
    IF s # <<>> /\ IsSeparator(Head(s)) THEN DropSeparators(Tail(s)) ELSE s
\* re.sub(r'[-\s]+', ' ', name)
RECURSIVE CollapseSeparators(_)
CollapseSeparators(s) ==
    IF s = <<>> THEN <<>>
    ELSE IF IsSeparator(Head(s))
         THEN <<" ">> \o CollapseSeparators(DropSeparators(Tail(s)))
    ELSE <<Head(s)>> \o CollapseSeparators(Tail(s))

\* normalize_name with the strip applied before the separators are collapsed
normalize_name_StripFirst(name) ==
    IF name = <<>> THEN <<>>
    ELSE Lower(CollapseSeparators(Strip(RemovePunct(DropCombining(NFKD(name))))))

normalize_name(name) ==
    IF name = <<>> THEN <<>>
    ELSE Strip(Lower(CollapseSeparators(RemovePunct(DropCombining(NFKD(name))))))

----------------------------------------------------------------------------
(* Field values and the conversions applied to them *)

\* the value csv.DictReader gives a column that a short line does not reach
NONE == <<"None">>
IsNone(v) == v = NONE

\* int(s): surrounding whitespace is stripped, one sign is allowed, the rest is
\* decimal digits, single underscores allowed between digits
RECURSIVE DigitsValue(_, _)
DigitsValue(s, acc) ==
    IF s = <<>> THEN acc
    ELSE IF Head(s) = "_" THEN DigitsValue(Tail(s), acc)
    ELSE DigitsValue(Tail(s), 10 * acc + DigitValue(Head(s)))

IsDigitString(b) ==
    /\ b # <<>>
    /\ IsDigit(b[1])
    /\ IsDigit(b[Len(b)])
    /\ \A i \in DOMAIN b : IsDigit(b[i]) \/ b[i] = "_"
    /\ \A i \in 1..(Len(b) - 1) : ~(b[i] = "_" /\ b[i + 1] = "_")

\* [ok |-> the call returns, val |-> what it returns]; ~ok is ValueError / TypeError
ParseInt(v) ==
    IF IsNone(v) THEN [ok |-> FALSE, val |-> 0]
    ELSE LET t == Strip(v)
             signed == t # <<>> /\ Head(t) \in {"+", "-"}
             b == IF signed THEN Tail(t) ELSE t
         IN  IF ~IsDigitString(b) THEN [ok |-> FALSE, val |-> 0]
             ELSE [ok |-> TRUE,
                   val |-> IF signed /\ Head(t) = "-" THEN 0 - DigitsValue(b, 0)
                           ELSE DigitsValue(b, 0)]

\* value.split(';')
RECURSIVE SplitSemi(_, _)
SplitSemi(s, cur) ==
    IF s = <<>> THEN <<cur>>
    ELSE IF Head(s) = ";" THEN <<cur>> \o SplitSemi(Tail(s), <<>>)
    ELSE SplitSemi(Tail(s), Append(cur, Head(s)))

\* lines 133-152: the stripped, non-empty pieces of a ';'-separated value
MultiValues(v) ==
    IF IsNone(v) \/ v = <<>> THEN {}
    ELSE {Strip(p) : p \in Range(SplitSemi(v, <<>>))} \ {<<>>}

\* IsFlagged without the .lower() of line 114
IsFlagged_CaseSensitive(v) ==
    v \in {<<"y","e","s">>, <<"t","r","u","e">>, <<"1">>}

\* line 114: row.get('references_israel', '').lower() in ['yes', 'true', '1']
IsFlagged(v) ==
    Lower(v) \in {<<"y","e","s">>, <<"t","r","u","e">>, <<"1">>}

MinYear == 1900
MaxYear == 2100

\* YearsOf without the range test of line 128
YearsOf_NoRangeCheck(pub_date) ==
    IF IsNone(pub_date) \/ Len(pub_date) < 4 THEN {}
    ELSE LET y == ParseInt(SubSeq(pub_date, 1, 4))
         IN  IF y.ok THEN {y.val} ELSE {}

\* lines 124-131: the set of years a publication_date contributes (empty or one year)
YearsOf(pub_date) ==
    IF IsNone(pub_date) \/ Len(pub_date) < 4 THEN {}
    ELSE LET y == ParseInt(SubSeq(pub_date, 1, 4))
         IN  IF y.ok /\ MinYear <= y.val /\ y.val <= MaxYear THEN {y.val} ELSE {}

----------------------------------------------------------------------------
(* The streaming phase of aggregate_authors, lines 28-152 *)

\* lines 33-44: the default value of author_data
NewAuthorData ==
    [author_names |-> {}, author_ids |-> {}, work_ids |-> {},
     specific_work_ids |-> {}, cited_by_per_work |-> <<>>, years |-> {},
     source_ids |-> {}, institutions |-> {}, countries |-> {}, affiliations |-> {}]

\* lines 28-47: the state before the first row
InitialStore ==
    [author_id_to_group_id |-> <<>>,
     normalized_name_to_group_id |-> <<>>,
     group_id_counter |-> 0,
     group_names |-> <<>>,
     author_data |-> <<>>,
     row_count |-> 0]

Min(S) == CHOOSE x \in S : \A y \in S : x <= y
\* Max returning the smallest member
Max_ReturnsMin(S) == CHOOSE x \in S : \A y \in S : x <= y
Max(S) == CHOOSE x \in S : \A y \in S : x >= y

\* d[k] = v on a dict
DictSet(d, k, v) == [x \in DOMAIN d \cup {k} |-> IF x = k THEN v ELSE d[x]]

\* lines 76-80: the groups a rescan of author_data finds for author_id
RescanHits(st, author_id) ==
    {g \in DOMAIN st.author_data : author_id \in st.author_data[g].author_ids}

\* ResolveGroup without the lookup of line 72: a group per row that carries an id
ResolveGroup_NoIdLookup(st, author_id, author_name) ==
    IF author_id # <<>> THEN
        [gid |-> st.group_id_counter,
         st |-> [st EXCEPT !.group_id_counter = @ + 1,
                           !.author_id_to_group_id =
                               DictSet(@, author_id, st.group_id_counter)]]
    ELSE
        LET normalized_name == normalize_name(author_name)
        IN  IF normalized_name \in DOMAIN st.normalized_name_to_group_id
            THEN [gid |-> st.normalized_name_to_group_id[normalized_name], st |-> st]
            ELSE [gid |-> st.group_id_counter,
                  st |-> [st EXCEPT !.group_id_counter = @ + 1,
                                    !.normalized_name_to_group_id =
                                        DictSet(@, normalized_name, st.group_id_counter)]]

\* ResolveGroup with the name index keyed by the name as written, not normalized
ResolveGroup_RawName(st, author_id, author_name) ==
    IF author_id # <<>> THEN
        IF author_id \in DOMAIN st.author_id_to_group_id
        THEN [gid |-> st.author_id_to_group_id[author_id], st |-> st]
        ELSE [gid |-> st.group_id_counter,
              st |-> [st EXCEPT !.group_id_counter = @ + 1,
                                !.author_id_to_group_id =
                                    DictSet(@, author_id, st.group_id_counter)]]
    ELSE
        IF author_name \in DOMAIN st.normalized_name_to_group_id
        THEN [gid |-> st.normalized_name_to_group_id[author_name], st |-> st]
        ELSE [gid |-> st.group_id_counter,
              st |-> [st EXCEPT !.group_id_counter = @ + 1,
                                !.normalized_name_to_group_id =
                                    DictSet(@, author_name, st.group_id_counter)]]

\* ResolveGroup where an author_id not yet indexed joins the group of its normalized name
ResolveGroup_NameFallback(st, author_id, author_name) ==
    LET normalized_name == normalize_name(author_name)
    IN  IF author_id # <<>> /\ author_id \in DOMAIN st.author_id_to_group_id
        THEN [gid |-> st.author_id_to_group_id[author_id], st |-> st]
        ELSE IF normalized_name \in DOMAIN st.normalized_name_to_group_id
        THEN LET g == st.normalized_name_to_group_id[normalized_name]
             IN  [gid |-> g,
                  st |-> IF author_id = <<>> THEN st
                         ELSE [st EXCEPT !.author_id_to_group_id =
                                             DictSet(@, author_id, g)]]
        ELSE IF author_id # <<>>
        THEN [gid |-> st.group_id_counter,
              st |-> [st EXCEPT !.group_id_counter = @ + 1,
                                !.author_id_to_group_id =
                                    DictSet(@, author_id, st.group_id_counter)]]
        ELSE [gid |-> st.group_id_counter,
              st |-> [st EXCEPT !.group_id_counter = @ + 1,
                                !.normalized_name_to_group_id =
                                    DictSet(@, normalized_name, st.group_id_counter)]]

\* ResolveGroup allocating the counter's value to a new key without advancing it
ResolveGroup_ReusesCounter(st, author_id, author_name) ==
    IF author_id # <<>> THEN
        IF author_id \in DOMAIN st.author_id_to_group_id
        THEN [gid |-> st.author_id_to_group_id[author_id], st |-> st]
        ELSE [gid |-> st.group_id_counter,
              st |-> [st EXCEPT !.author_id_to_group_id =
                                    DictSet(@, author_id, st.group_id_counter)]]
    ELSE
        LET normalized_name == normalize_name(author_name)
        IN  IF normalized_name \in DOMAIN st.normalized_name_to_group_id
            THEN [gid |-> st.normalized_name_to_group_id[normalized_name], st |-> st]
            ELSE [gid |-> st.group_id_counter,
                  st |-> [st EXCEPT !.normalized_name_to_group_id =
                                        DictSet(@, normalized_name, st.group_id_counter)]]

\* lines 68-97: [gid |-> the row's group, st |-> the indices and counter afterwards]
ResolveGroup(st, author_id, author_name) ==
    IF author_id # <<>> THEN
        IF author_id \in DOMAIN st.author_id_to_group_id
        THEN [gid |-> st.author_id_to_group_id[author_id], st |-> st]
        ELSE IF RescanHits(st, author_id) # {}
        THEN LET g == Min(RescanHits(st, author_id))
             IN  [gid |-> g,
                  st |-> [st EXCEPT !.author_id_to_group_id = DictSet(@, author_id, g)]]
        ELSE [gid |-> st.group_id_counter,
              st |-> [st EXCEPT !.group_id_counter = @ + 1,
                                !.author_id_to_group_id =
                                    DictSet(@, author_id, st.group_id_counter)]]
    ELSE
        LET normalized_name == normalize_name(author_name)
        IN  IF normalized_name \in DOMAIN st.normalized_name_to_group_id
            THEN [gid |-> st.normalized_name_to_group_id[normalized_name], st |-> st]
            ELSE [gid |-> st.group_id_counter,
                  st |-> [st EXCEPT !.group_id_counter = @ + 1,
                                    !.normalized_name_to_group_id =
                                        DictSet(@, normalized_name, st.group_id_counter)]]

\* MergeCitedBy adding every parsed count to the stored one
MergeCitedBy_Accumulate(cited_by_per_work, work_id, raw) ==
    LET cited_by == ParseInt(raw)
    IN  IF ~cited_by.ok THEN cited_by_per_work
        ELSE IF work_id \in DOMAIN cited_by_per_work
        THEN DictSet(cited_by_per_work, work_id,
                     cited_by_per_work[work_id] + cited_by.val)
        ELSE DictSet(cited_by_per_work, work_id, cited_by.val)

\* MergeCitedBy without the test of line 119: the last parsed count is kept
MergeCitedBy_LastWins(cited_by_per_work, work_id, raw) ==
    LET cited_by == ParseInt(raw)
    IN  IF cited_by.ok THEN DictSet(cited_by_per_work, work_id, cited_by.val)
        ELSE cited_by_per_work

\* MergeCitedBy storing 0 for a count that does not parse
MergeCitedBy_ZeroOnFailure(cited_by_per_work, work_id, raw) ==
    LET cited_by == ParseInt(raw)
    IN  IF work_id \notin DOMAIN cited_by_per_work
        THEN DictSet(cited_by_per_work, work_id, cited_by.val)
        ELSE cited_by_per_work

\* MergeCitedBy where the first row of a work decides: a count that does not parse
\* closes the work with no citations
MergeCitedBy_FirstRowDecides(cited_by_per_work, work_id, raw) ==
    LET cited_by == ParseInt(raw)
    IN  IF work_id \in DOMAIN cited_by_per_work THEN cited_by_per_work
        ELSE DictSet(cited_by_per_work, work_id,
                     IF cited_by.ok THEN cited_by.val ELSE 0)

\* lines 117-122: first write wins, a value that does not parse writes nothing
MergeCitedBy(cited_by_per_work, work_id, raw) ==
    LET cited_by == ParseInt(raw)
    IN  IF cited_by.ok /\ work_id \notin DOMAIN cited_by_per_work
        THEN DictSet(cited_by_per_work, work_id, cited_by.val)
        ELSE cited_by_per_work

\* MergeRow recording the author_id as written, beside the trimmed one
MergeRow_RawAuthorId(data, row, author_name, author_id, work_id) ==
    [author_names |-> data.author_names \cup {author_name},
     author_ids |-> IF author_id # <<>>
                    THEN data.author_ids \cup {author_id, row.author_id}
                    ELSE data.author_ids,
     work_ids |-> data.work_ids \cup {work_id},
     source_ids |-> IF Strip(row.source_id) # <<>>
                    THEN data.source_ids \cup {Strip(row.source_id)}
                    ELSE data.source_ids,
     specific_work_ids |-> IF IsFlagged(row.references_israel)
                           THEN data.specific_work_ids \cup {work_id}
                           ELSE data.specific_work_ids,
     cited_by_per_work |-> MergeCitedBy(data.cited_by_per_work, work_id,
                                        row.cited_by_count),
     years |-> data.years \cup YearsOf(row.publication_date),
     institutions |-> data.institutions \cup MultiValues(row.institutions),
     countries |-> data.countries \cup MultiValues(row.countries),
     affiliations |-> data.affiliations \cup MultiValues(row.affiliations_comment)]

\* MergeRow without the test of line 103: the empty author_id is recorded too
MergeRow_AddsEmptyId(data, row, author_name, author_id, work_id) ==
    [author_names |-> data.author_names \cup {author_name},
     author_ids |-> data.author_ids \cup {author_id},
     work_ids |-> data.work_ids \cup {work_id},
     source_ids |-> IF Strip(row.source_id) # <<>>
                    THEN data.source_ids \cup {Strip(row.source_id)}
                    ELSE data.source_ids,
     specific_work_ids |-> IF IsFlagged(row.references_israel)
                           THEN data.specific_work_ids \cup {work_id}
                           ELSE data.specific_work_ids,
     cited_by_per_work |-> MergeCitedBy(data.cited_by_per_work, work_id,
                                        row.cited_by_count),
     years |-> data.years \cup YearsOf(row.publication_date),
     institutions |-> data.institutions \cup MultiValues(row.institutions),
     countries |-> data.countries \cup MultiValues(row.countries),
     affiliations |-> data.affiliations \cup MultiValues(row.affiliations_comment)]

\* MergeRow keying cited_by_per_work by the row's id as written, not trimmed
MergeRow_CitedByRawWorkId(data, row, author_name, author_id, work_id) ==
    [author_names |-> data.author_names \cup {author_name},
     author_ids |-> IF author_id # <<>> THEN data.author_ids \cup {author_id}
                    ELSE data.author_ids,
     work_ids |-> data.work_ids \cup {work_id},
     source_ids |-> IF Strip(row.source_id) # <<>>
                    THEN data.source_ids \cup {Strip(row.source_id)}
                    ELSE data.source_ids,
     specific_work_ids |-> IF IsFlagged(row.references_israel)
                           THEN data.specific_work_ids \cup {work_id}
                           ELSE data.specific_work_ids,
     cited_by_per_work |-> MergeCitedBy(data.cited_by_per_work, row.id,
                                        row.cited_by_count),
     years |-> data.years \cup YearsOf(row.publication_date),
     institutions |-> data.institutions \cup MultiValues(row.institutions),
     countries |-> data.countries \cup MultiValues(row.countries),
     affiliations |-> data.affiliations \cup MultiValues(row.affiliations_comment)]

\* lines 99-152: the row's fields merged into its group's record
MergeRow(data, row, author_name, author_id, work_id) ==
    [author_names |-> data.author_names \cup {author_name},
     author_ids |-> IF author_id # <<>> THEN data.author_ids \cup {author_id}
                    ELSE data.author_ids,
     work_ids |-> data.work_ids \cup {work_id},
     source_ids |-> IF Strip(row.source_id) # <<>>
                    THEN data.source_ids \cup {Strip(row.source_id)}
                    ELSE data.source_ids,
     specific_work_ids |-> IF IsFlagged(row.references_israel)
                           THEN data.specific_work_ids \cup {work_id}
                           ELSE data.specific_work_ids,
     cited_by_per_work |-> MergeCitedBy(data.cited_by_per_work, work_id,
                                        row.cited_by_count),
     years |-> data.years \cup YearsOf(row.publication_date),
     institutions |-> data.institutions \cup MultiValues(row.institutions),
     countries |-> data.countries \cup MultiValues(row.countries),
     affiliations |-> data.affiliations \cup MultiValues(row.affiliations_comment)]

\* a None where the loop body calls a str method: AttributeError leaves the loop
\* (lines 57, 58, 63, 110, 114)
RowRaises(row) ==
    \/ IsNone(row.author_name)
    \/ IsNone(row.author_id)
    \/ /\ Strip(row.author_name) # <<>>
       /\ \/ IsNone(row.id)
          \/ /\ Strip(row.id) # <<>>
             /\ (IsNone(row.source_id) \/ IsNone(row.references_israel))

\* RowSkipped without the test of lines 63-65 on the work id
RowSkipped_NameOnly(row) ==
    /\ ~RowRaises(row)
    /\ Strip(row.author_name) = <<>>

\* lines 60-65: the row is dropped by one of the two continue statements
RowSkipped(row) ==
    /\ ~RowRaises(row)
    /\ (Strip(row.author_name) = <<>> \/ Strip(row.id) = <<>>)

\* ProcessRow where the default of lines 33-44 is one record shared by every group
ProcessRow_SharedDefault(st, row) ==
    LET author_name == Strip(row.author_name)
        author_id == Strip(row.author_id)
        work_id == Strip(row.id)
        counted == [st EXCEPT !.row_count = @ + 1]
    IN  IF RowSkipped(row) THEN counted
        ELSE LET r == ResolveGroup(counted, author_id, author_name)
                 group_id == r.gid
                 old == IF group_id \in DOMAIN r.st.author_data
                        THEN r.st.author_data[group_id] ELSE NewAuthorData
                 oldNames == IF group_id \in DOMAIN r.st.group_names
                             THEN r.st.group_names[group_id] ELSE {}
                 merged == MergeRow(old, row, author_name, author_id, work_id)
             IN  [r.st EXCEPT
                    !.author_data = [g \in DOMAIN @ \cup {group_id} |-> merged],
                    !.group_names = DictSet(@, group_id, oldNames \cup {author_name}),
                    !.author_id_to_group_id =
                        IF author_id # <<>> THEN DictSet(@, author_id, group_id) ELSE @]

\* lines 52-152: one iteration of the loop on a row that does not raise
ProcessRow(st, row) ==
    LET author_name == Strip(row.author_name)
        author_id == Strip(row.author_id)
        work_id == Strip(row.id)
        counted == [st EXCEPT !.row_count = @ + 1]
    IN  IF RowSkipped(row) THEN counted
        ELSE LET r == ResolveGroup(counted, author_id, author_name)
                 group_id == r.gid
                 old == IF group_id \in DOMAIN r.st.author_data
                        THEN r.st.author_data[group_id] ELSE NewAuthorData
                 oldNames == IF group_id \in DOMAIN r.st.group_names
                             THEN r.st.group_names[group_id] ELSE {}
             IN  [r.st EXCEPT
                    !.author_data = DictSet(@, group_id,
                        MergeRow(old, row, author_name, author_id, work_id)),
                    !.group_names = DictSet(@, group_id, oldNames \cup {author_name}),
                    !.author_id_to_group_id =
                        IF author_id # <<>> THEN DictSet(@, author_id, group_id) ELSE @]

\* the group an accepted row resolves to
GroupOf(st, row) ==
    ResolveGroup(st, Strip(row.author_id), Strip(row.author_name)).gid

----------------------------------------------------------------------------
(* Finalization, lines 157-193 *)

\* str.split(): the maximal runs of non-whitespace characters
RECURSIVE SplitWords(_, _)
SplitWords(s, cur) ==
    IF s = <<>> THEN (IF cur = <<>> THEN <<>> ELSE <<cur>>)
    ELSE IF IsSpace(Head(s))
         THEN (IF cur = <<>> THEN <<>> ELSE <<cur>>) \o SplitWords(Tail(s), <<>>)
    ELSE SplitWords(Tail(s), Append(cur, Head(s)))

\* str.capitalize()
Capitalize(w) ==
    IF w = <<>> THEN <<>> ELSE <<UpperChar(Head(w))>> \o Lower(Tail(w))

\* sep.join(parts)
RECURSIVE Join(_, _)
Join(parts, sep) ==
    IF parts = <<>> THEN <<>>
    ELSE IF Len(parts) = 1 THEN Head(parts)
    ELSE Head(parts) \o sep \o Join(Tail(parts), sep)

\* line 174: ' '.join(word.capitalize() for word in s.split())
TitleCase(s) ==
    LET words == SplitWords(s, <<>>)
    IN  Join([i \in DOMAIN words |-> Capitalize(words[i])], <<" ">>)

\* sorted(S) for a set of strings
RECURSIVE SortedStrings(_)
SortedStrings(S) ==
    IF S = {} THEN <<>>
    ELSE LET m == CHOOSE x \in S : \A y \in S \ {x} : StrLess(x, y)
         IN  <<m>> \o SortedStrings(S \ {m})

\* ';'.join(sorted(S))
JoinSorted(S) == Join(SortedStrings(S), <<";">>)

\* SumValues counting the dict's entries instead of adding its values
SumValues_CountsEntries(d) == Cardinality(DOMAIN d)

\* sum(d.values())
RECURSIVE SumValues(_)
SumValues(d) ==
    IF DOMAIN d = {} THEN 0
    ELSE LET k == CHOOSE x \in DOMAIN d : TRUE
         IN  d[k] + SumValues([x \in DOMAIN d \ {k} |-> d[x]])

\* line 172-173: normalized_names.count(form), one entry per raw name of the group
NormalizedCount(names, form) == Cardinality({n \in names : normalize_name(n) = form})
NormalizedForms(names) == {normalize_name(n) : n \in names}

\* line 173: max(set(normalized_names), key=normalized_names.count) returns the first
\* form of highest count in the iteration order of a set of strings, which string
\* hashing fixes per process: any form of highest count can be the one returned
MostCommonForms(names) ==
    {f \in NormalizedForms(names) :
        \A g \in NormalizedForms(names) :
            NormalizedCount(names, g) <= NormalizedCount(names, f)}

\* BuildRow with works_count taken from the works that have a citation count
BuildRow_CountsCitedWorks(data, names, form) ==
    [author_name |-> IF names # {} THEN TitleCase(form) ELSE <<>>,
     author_ids |-> JoinSorted(data.author_ids),
     works_count |-> Cardinality(DOMAIN data.cited_by_per_work),
     specific_works_count |-> Cardinality(data.specific_work_ids),
     journals_count |-> Cardinality(data.source_ids),
     cited_by_count |-> SumValues(data.cited_by_per_work),
     min_year |-> IF data.years # {} THEN <<Min(data.years)>> ELSE <<>>,
     max_year |-> IF data.years # {} THEN <<Max(data.years)>> ELSE <<>>,
     institutions |-> JoinSorted(data.institutions),
     countries |-> JoinSorted(data.countries),
     affiliations_comment |-> JoinSorted(data.affiliations)]

\* lines 166-190: the output row of a group; form is line 173's most_common_normalized.
\* min_year / max_year are <<>> for '' and <<y>> for the year y.
BuildRow(data, names, form) ==
    [author_name |-> IF names # {} THEN TitleCase(form) ELSE <<>>,
     author_ids |-> JoinSorted(data.author_ids),
     works_count |-> Cardinality(data.work_ids),
     specific_works_count |-> Cardinality(data.specific_work_ids),
     journals_count |-> Cardinality(data.source_ids),
     cited_by_count |-> SumValues(data.cited_by_per_work),
     min_year |-> IF data.years # {} THEN <<Min(data.years)>> ELSE <<>>,
     max_year |-> IF data.years # {} THEN <<Max(data.years)>> ELSE <<>>,
     institutions |-> JoinSorted(data.institutions),
     countries |-> JoinSorted(data.countries),
     affiliations_comment |-> JoinSorted(data.affiliations)]

\* EmittedGroups without the filter of lines 162-164
EmittedGroups_Unfiltered(st) == DOMAIN st.author_data

\* line 162: the groups the filter keeps
EmittedGroups(st) ==
    {g \in DOMAIN st.author_data : st.author_data[g].specific_work_ids # {}}

\* the results line 173 can have, one per emitted group
NameChoices(st) ==
    {c \in [EmittedGroups(st) -> UNION {NormalizedForms(st.group_names[g]) :
                                        g \in EmittedGroups(st)}] :
        \A g \in EmittedGroups(st) : c[g] \in MostCommonForms(st.group_names[g])}

\* lines 160-191: output_rows before the sort; author_data.items() yields the groups
\* in insertion order, which is ascending group id
RECURSIVE RowsFrom(_, _, _)
RowsFrom(st, choice, gid) ==
    IF gid >= st.group_id_counter THEN <<>>
    ELSE IF gid \in EmittedGroups(st)
         THEN <<BuildRow(st.author_data[gid], st.group_names[gid], choice[gid])>>
              \o RowsFrom(st, choice, gid + 1)
    ELSE RowsFrom(st, choice, gid + 1)

\* InsertByWorksDesc placing a row before the rows of equal works_count
RECURSIVE InsertByWorksDesc_BeforeEquals(_, _)
InsertByWorksDesc_BeforeEquals(sorted, r) ==
    IF sorted = <<>> THEN <<r>>
    ELSE IF Head(sorted).works_count > r.works_count
         THEN <<Head(sorted)>> \o InsertByWorksDesc_BeforeEquals(Tail(sorted), r)
    ELSE <<r>> \o sorted

\* list.sort(key=works_count, reverse=True): stable, equal keys keep their order
RECURSIVE InsertByWorksDesc(_, _)
InsertByWorksDesc(sorted, r) ==
    IF sorted = <<>> THEN <<r>>
    ELSE IF Head(sorted).works_count >= r.works_count
         THEN <<Head(sorted)>> \o InsertByWorksDesc(Tail(sorted), r)
    ELSE <<r>> \o sorted

RECURSIVE SortByWorksDesc(_)
SortByWorksDesc(rows) ==
    IF rows = <<>> THEN <<>>
    ELSE InsertByWorksDesc(SortByWorksDesc(SubSeq(rows, 1, Len(rows) - 1)),
                           rows[Len(rows)])

\* lines 157-193
FinalRows(st, choice) == SortByWorksDesc(RowsFrom(st, choice, 0))

----------------------------------------------------------------------------
(* The rows the reader can yield *)

Row(name, aid, wid, flag, cited, date, src, inst, ctry, aff) ==
    [author_name |-> name, author_id |-> aid, id |-> wid,
     references_israel |-> flag, cited_by_count |-> cited,
     publication_date |-> date, source_id |-> src,
     institutions |-> inst, countries |-> ctry, affiliations_comment |-> aff]

NameAl == <<"A","l">>
NameBo == <<"B","o">>
NameBQo == <<"b","'","o">>
NameLowerAl == <<"a","l">>
NameAccent == <<"E_ACUTE","-","a">>
NameQuote == <<"'">>
IdA1 == <<"A","1">>
IdA1Padded == <<" ","A","1"," ">>
IdA2 == <<"A","2">>
WorkW1 == <<"W","1">>
WorkW1Padded == <<"W","1"," ">>
WorkW2 == <<"W","2">>
WorkW3 == <<"W","3">>
SrcS1 == <<"S","1">>
SrcS2 == <<" ","S","2">>
Date2020 == <<"2","0","2","0","-","0","1","-","0","1">>
Date2021 == <<"2","0","2","1","-","0","6","-","1","5">>
Date1899 == <<"1","8","9","9">>
Date2101 == <<"2","1","0","1","-","0","1">>
DateShort == <<"2","0","2">>
DateBad == <<"2","0","a","0","-","0","1">>

Rows ==
    { Row(NameAl, IdA1, WorkW1, <<"Y","e","s">>, <<"5">>, Date2020, SrcS1,
          <<"M",";"," ","T">>, <<"I","L">>, <<>>),
      Row(NameBo, IdA1Padded, WorkW2, <<"N","o">>, <<"3">>, Date2021, SrcS1,
          <<"T",";",";">>, <<>>, <<"x">>),
      Row(NameBQo, IdA1, WorkW1Padded, <<"n","o">>, <<"7">>, Date1899, SrcS2,
          <<>>, <<"U","S">>, <<>>),
      Row(NameBo, IdA2, WorkW1, <<"T","R","U","E">>, <<"a","b","c">>, <<>>, <<>>,
          <<>>, <<>>, <<>>),
      Row(NameAl, IdA2, WorkW3, <<" ","y","e","s">>, <<"6">>, DateBad, <<" ">>,
          NONE, NONE, NONE),
      Row(NameBQo, <<>>, WorkW3, <<"1">>, <<" ","2">>, DateShort, SrcS1,
          <<>>, <<>>, <<>>),
      Row(NameBo, <<" ">>, WorkW3, <<>>, <<>>, Date2101, <<>>,
          <<>>, <<>>, <<>>),
      Row(NameLowerAl, <<>>, WorkW2, <<"t","r","u","e">>, <<"4">>, NONE, SrcS2,
          <<>>, <<>>, <<>>),
      Row(NameAccent, <<>>, WorkW1, <<"y","e","s">>, <<"-","1">>, Date2020, <<>>,
          <<>>, <<>>, <<>>),
      Row(NameQuote, <<>>, WorkW2, <<"Y","E","S">>, NONE, Date2021, <<>>,
          <<>>, <<>>, <<>>),
      Row(<<" ">>, IdA1, WorkW1, <<"y","e","s">>, <<"9">>, Date2020, SrcS1,
          <<>>, <<>>, <<>>),
      Row(NameAl, IdA1, <<" ">>, <<"y","e","s">>, <<"9">>, Date2020, SrcS1,
          <<>>, <<>>, <<>>),
      Row(NameAl, IdA2, WorkW2, NONE, <<"1">>, <<>>, <<>>, <<>>, <<>>, <<>>),
      Row(NameBo, IdA1, NONE, NONE, NONE, NONE, NONE, NONE, NONE, NONE) }

----------------------------------------------------------------------------
(* aggregate_authors as a state machine *)

\* resolved[i] of a row that was dropped
SKIPPED == -1

\* OUTPUT_FILE before line 195 has opened it
NoFile == [exists |-> FALSE, header |-> FALSE, rows |-> <<>>]
\* line 195: open(OUTPUT_FILE, 'w') creates the file, or truncates it
EmptyFile == [exists |-> TRUE, header |-> FALSE, rows |-> <<>>]

Store ==
    [author_id_to_group_id |-> author_id_to_group_id,
     normalized_name_to_group_id |-> normalized_name_to_group_id,
     group_id_counter |-> group_id_counter,
     group_names |-> group_names,
     author_data |-> author_data,
     row_count |-> row_count]

SetStore(st) ==
    /\ author_id_to_group_id' = st.author_id_to_group_id
    /\ normalized_name_to_group_id' = st.normalized_name_to_group_id
    /\ group_id_counter' = st.group_id_counter
    /\ group_names' = st.group_names
    /\ author_data' = st.author_data
    /\ row_count' = st.row_count

Init ==
    /\ pc = "reading"
    /\ rows_read = <<>>
    /\ resolved = <<>>
    /\ row_count = InitialStore.row_count
    /\ author_id_to_group_id = InitialStore.author_id_to_group_id
    /\ normalized_name_to_group_id = InitialStore.normalized_name_to_group_id
    /\ group_id_counter = InitialStore.group_id_counter
    /\ group_names = InitialStore.group_names
    /\ author_data = InitialStore.author_data
    /\ output_rows = <<>>
    /\ filtered_count = 0
    /\ out_file = NoFile
    /\ nm_in = <<>>
    /\ nm_out = <<>>
    /\ nm_out2 = <<>>
    /\ nm_pc = "idle"

\* lines 52-65: the reader yields a row that one of the continue statements drops
SkipRow(row) ==
    /\ pc = "reading"
    /\ Len(rows_read) < MaxRows
    /\ RowSkipped(row)
    /\ SetStore(ProcessRow(Store, row))
    /\ rows_read' = Append(rows_read, row)
    /\ resolved' = Append(resolved, SKIPPED)
    /\ UNCHANGED <<pc, output_rows, filtered_count, out_file, nmVars>>

\* lines 52-152: the reader yields a row that is aggregated
AggregateRow(row) ==
    /\ pc = "reading"
    /\ Len(rows_read) < MaxRows
    /\ ~RowRaises(row)
    /\ ~RowSkipped(row)
    /\ SetStore(ProcessRow(Store, row))
    /\ rows_read' = Append(rows_read, row)
    /\ resolved' = Append(resolved, GroupOf(Store, row))
    /\ UNCHANGED <<pc, output_rows, filtered_count, out_file, nmVars>>

\* lines 57, 58, 63, 110, 114: a str method is called on None; the AttributeError is
\* not caught and ends aggregate_authors
RowError(row) ==
    /\ pc = "reading"
    /\ Len(rows_read) < MaxRows
    /\ RowRaises(row)
    /\ pc' = "crashed"
    /\ rows_read' = Append(rows_read, row)
    /\ row_count' = row_count + 1
    /\ UNCHANGED <<resolved, author_id_to_group_id, normalized_name_to_group_id,
                   group_id_counter, group_names, author_data, output_rows,
                   filtered_count, out_file, nmVars>>

\* Finalize counting as filtered the groups of no work at all, not those of no
\* flagged work
Finalize_FilterCountsEmptyGroups ==
    /\ pc = "reading"
    /\ \E choice \in NameChoices(Store) :
          output_rows' = FinalRows(Store, choice)
    /\ filtered_count' =
          Cardinality({g \in DOMAIN author_data : author_data[g].work_ids = {}})
    /\ pc' = "sorted"
    /\ UNCHANGED <<rows_read, resolved, row_count, author_id_to_group_id,
                   normalized_name_to_group_id, group_id_counter, group_names,
                   author_data, out_file, nmVars>>

\* Finalize deleting the groups the filter of lines 162-164 drops
Finalize_DeletesFiltered ==
    /\ pc = "reading"
    /\ \E choice \in NameChoices(Store) :
          output_rows' = FinalRows(Store, choice)
    /\ filtered_count' = Cardinality(DOMAIN author_data \ EmittedGroups(Store))
    /\ author_data' = [g \in EmittedGroups(Store) |-> author_data[g]]
    /\ pc' = "sorted"
    /\ UNCHANGED <<rows_read, resolved, row_count, author_id_to_group_id,
                   normalized_name_to_group_id, group_id_counter, group_names,
                   out_file, nmVars>>

\* lines 154-193: the reader is exhausted; filter, build and sort the output rows
Finalize ==
    /\ pc = "reading"
    /\ \E choice \in NameChoices(Store) :
          output_rows' = FinalRows(Store, choice)
    /\ filtered_count' = Cardinality(DOMAIN author_data \ EmittedGroups(Store))
    /\ pc' = "sorted"
    /\ UNCHANGED <<rows_read, resolved, row_count, author_id_to_group_id,
                   normalized_name_to_group_id, group_id_counter, group_names,
                   author_data, out_file, nmVars>>

\* the file lines 195-203 leave when nothing interrupts them
CompleteFile(rows) == [exists |-> TRUE, header |-> TRUE, rows |-> rows]

\* lines 195-210: the rows are written to OUTPUT_FILE and returned
WriteOutput ==
    /\ pc = "sorted"
    /\ out_file' = CompleteFile(output_rows)
    /\ pc' = "done"
    /\ UNCHANGED <<rows_read, resolved, row_count, author_id_to_group_id,
                   normalized_name_to_group_id, group_id_counter, group_names,
                   author_data, output_rows, filtered_count, nmVars>>

Next ==
    \/ \E row \in Rows : SkipRow(row)
    \/ \E row \in Rows : AggregateRow(row)
    \/ \E row \in Rows : RowError(row)
    \/ Finalize
    \/ WriteOutput

Spec == Init /\ [][Next]_vars

----------------------------------------------------------------------------
(* The same run with lines 195-203 taken one write at a time, and with the     *)
(* failures of the environment: an I/O error or an interrupt                   *)

\* line 195: OUTPUT_FILE is opened for writing
\* OpenOutput placed before the loop over the input, as well as after the sort
OpenOutput_BeforeReading ==
    /\ pc \in {"reading", "sorted"}
    /\ out_file' = EmptyFile
    /\ pc' = "opened"
    /\ UNCHANGED <<rows_read, resolved, row_count, author_id_to_group_id,
                   normalized_name_to_group_id, group_id_counter, group_names,
                   author_data, output_rows, filtered_count, nmVars>>

OpenOutput ==
    /\ pc = "sorted"
    /\ out_file' = EmptyFile
    /\ pc' = "opened"
    /\ UNCHANGED <<rows_read, resolved, row_count, author_id_to_group_id,
                   normalized_name_to_group_id, group_id_counter, group_names,
                   author_data, output_rows, filtered_count, nmVars>>

\* line 202: writer.writeheader()
WriteHeader ==
    /\ pc = "opened"
    /\ out_file' = [out_file EXCEPT !.header = TRUE]
    /\ pc' = "writing"
    /\ UNCHANGED <<rows_read, resolved, row_count, author_id_to_group_id,
                   normalized_name_to_group_id, group_id_counter, group_names,
                   author_data, output_rows, filtered_count, nmVars>>

\* line 203: writer.writerows(output_rows), one row reaching the file
WriteOutputRow ==
    /\ pc = "writing"
    /\ Len(out_file.rows) < Len(output_rows)
    /\ out_file' = [out_file EXCEPT
                       !.rows = Append(@, output_rows[Len(out_file.rows) + 1])]
    /\ UNCHANGED <<pc, rows_read, resolved, row_count, author_id_to_group_id,
                   normalized_name_to_group_id, group_id_counter, group_names,
                   author_data, output_rows, filtered_count, nmVars>>

\* lines 203-210: all rows are written, the file is closed, output_rows is returned
CloseOutput ==
    /\ pc = "writing"
    /\ Len(out_file.rows) = Len(output_rows)
    /\ pc' = "done"
    /\ UNCHANGED <<rows_read, resolved, row_count, author_id_to_group_id,
                   normalized_name_to_group_id, group_id_counter, group_names,
                   author_data, output_rows, filtered_count, out_file, nmVars>>

\* an OSError of open / read / write or a KeyboardInterrupt: nothing in
\* aggregate_authors or main catches it, the run ends where it is and the with
\* statement closes the file as it stands
Abort ==
    /\ pc \in {"reading", "sorted", "opened", "writing"}
    /\ pc' = "aborted"
    /\ UNCHANGED <<rows_read, resolved, row_count, author_id_to_group_id,
                   normalized_name_to_group_id, group_id_counter, group_names,
                   author_data, output_rows, filtered_count, out_file, nmVars>>

IoNext ==
    \/ \E row \in Rows : SkipRow(row)
    \/ \E row \in Rows : AggregateRow(row)
    \/ \E row \in Rows : RowError(row)
    \/ Finalize
    \/ OpenOutput
    \/ WriteHeader
    \/ WriteOutputRow
    \/ CloseOutput
    \/ Abort

IoSpec == Init /\ [][IoNext]_vars

----------------------------------------------------------------------------
(* normalize_name applied to every short string, and to its own result *)

NormAlphabet == {"a", "B", "E_ACUTE", "COMB_ACUTE", " ", "TAB", "-", "'", "_"}

RECURSIVE StringsUpTo(_)
StringsUpTo(n) ==
    IF n = 0 THEN {<<>>}
    ELSE StringsUpTo(n - 1) \cup
         {Append(s, c) : s \in StringsUpTo(n - 1), c \in NormAlphabet}

NormInit ==
    /\ pc = "idle"
    /\ rows_read = <<>>
    /\ resolved = <<>>
    /\ row_count = 0
    /\ author_id_to_group_id = <<>>
    /\ normalized_name_to_group_id = <<>>
    /\ group_id_counter = 0
    /\ group_names = <<>>
    /\ author_data = <<>>
    /\ output_rows = <<>>
    /\ filtered_count = 0
    /\ out_file = NoFile
    /\ nm_in \in StringsUpTo(MaxNameLen)
    /\ nm_out = <<>>
    /\ nm_out2 = <<>>
    /\ nm_pc = "call"

NormalizeOnce ==
    /\ nm_pc = "call"
    /\ nm_out' = normalize_name(nm_in)
    /\ nm_pc' = "returned"
    /\ UNCHANGED <<nm_in, nm_out2, aggVars>>

NormalizeAgain ==
    /\ nm_pc = "returned"
    /\ nm_out2' = normalize_name(nm_out)
    /\ nm_pc' = "twice"
    /\ UNCHANGED <<nm_in, nm_out, aggVars>>

NormNext == NormalizeOnce \/ NormalizeAgain

NormSpec == NormInit /\ [][NormNext]_vars

----------------------------------------------------------------------------
(* The history of a run: which rows were accepted, and what they carried *)

Accepted == {i \in DOMAIN resolved : resolved[i] # SKIPPED}
IdOf(i) == Strip(rows_read[i].author_id)
NameOf(i) == Strip(rows_read[i].author_name)
WorkOf(i) == Strip(rows_read[i].id)
WithId == {i \in Accepted : IdOf(i) # <<>>}
WithoutId == {i \in Accepted : IdOf(i) = <<>>}
RowsOfGroup(g) == {i \in Accepted : resolved[i] = g}
Finished == pc \in {"sorted", "opened", "writing", "done"}

----------------------------------------------------------------------------
(* C1 *)

\* C1: in every state of every run (every order of every input), any two accepted
\* rows with the same non-empty trimmed author_id were resolved to the same group,
\* and author_id_to_group_id maps that author_id to exactly that group.
C1_SameAuthorIdSameGroup ==
    /\ \A i, j \in WithId : IdOf(i) = IdOf(j) => resolved[i] = resolved[j]
    /\ \A i \in WithId :
          /\ IdOf(i) \in DOMAIN author_id_to_group_id
          /\ author_id_to_group_id[IdOf(i)] = resolved[i]
    /\ \A a \in DOMAIN author_id_to_group_id : \E i \in WithId : IdOf(i) = a

\* two accepted rows whose author_id differs as written, is equal once trimmed, and
\* whose names differ, after a row of another author_id
C1_Witness ==
    \E i, j, k \in WithId :
        /\ i < j
        /\ rows_read[i].author_id # rows_read[j].author_id
        /\ IdOf(i) = IdOf(j)
        /\ NameOf(i) # NameOf(j)
        /\ IdOf(k) # IdOf(i)
        /\ resolved[k] # resolved[i]

----------------------------------------------------------------------------
(* C2 *)

\* C2: in every state, two accepted rows with an empty author_id are in the same
\* group if and only if normalize_name gives the same value for their names, and
\* normalized_name_to_group_id maps that value to exactly their group.
C2_NameOnlyGroupingIsNormalizedEquality ==
    /\ \A i, j \in WithoutId :
          (resolved[i] = resolved[j]) <=>
              (normalize_name(NameOf(i)) = normalize_name(NameOf(j)))
    /\ \A i \in WithoutId :
          /\ normalize_name(NameOf(i)) \in DOMAIN normalized_name_to_group_id
          /\ normalized_name_to_group_id[normalize_name(NameOf(i))] = resolved[i]
    /\ \A n \in DOMAIN normalized_name_to_group_id :
          \E i \in WithoutId : normalize_name(NameOf(i)) = n

\* three id-less accepted rows: two with different names that normalize alike, and
\* one that normalizes differently
C2_Witness ==
    \E i, j, k \in WithoutId :
        /\ NameOf(i) # NameOf(j)
        /\ resolved[i] = resolved[j]
        /\ resolved[k] # resolved[i]

----------------------------------------------------------------------------
(* C3, under NormSpec *)

AllChars ==
    Range(UPPER) \cup Range(LOWER) \cup Range(DIGITS) \cup
    {"E_ACUTE", "e_acute", "COMB_ACUTE", " ", "TAB", "-", "'", "_", "+", ".", ";"}
IsString(s) == DOMAIN s = 1..Len(s) /\ \A i \in DOMAIN s : s[i] \in AllChars

\* C3: normalize_name returns a string for every input (before the call its value
\* on the argument is defined and a string, and so is what the call returned), the
\* empty string gives the empty string, and applying it to its own result returns
\* that result.
C3_NormalizeTotalIdempotent ==
    /\ nm_pc = "call" => IsString(normalize_name(nm_in))
    /\ nm_pc \in {"returned", "twice"} =>
          /\ IsString(nm_out)
          /\ nm_in = <<>> => nm_out = <<>>
    /\ nm_pc = "twice" => nm_out2 = nm_out

\* an input with an accent, a punctuation mark or a separator run that the first
\* application rewrote to a non-empty result
C3_Witness ==
    /\ nm_pc = "twice"
    /\ nm_out # <<>>
    /\ Len(nm_out) < Len(nm_in)
    /\ \E i \in DOMAIN nm_in : nm_in[i] \in {"E_ACUTE", "'", "-", "TAB"}

----------------------------------------------------------------------------
(* C4 *)

\* the orders a sequence of rows can be read in
Reorderings(rows) ==
    LET n == Len(rows)
        perms == {p \in [1..n -> 1..n] : \A a, b \in 1..n : p[a] = p[b] => a = b}
    IN  {[i \in 1..n |-> rows[p[i]]] : p \in perms}

\* the streaming phase on a whole input
RECURSIVE RunStream(_)
RunStream(rows) ==
    IF rows = <<>> THEN InitialStore
    ELSE ProcessRow(RunStream(SubSeq(rows, 1, Len(rows) - 1)), rows[Len(rows)])

\* the values aggregate_authors can return on an input
Outputs(rows) ==
    {FinalRows(RunStream(rows), c) : c \in NameChoices(RunStream(rows))}

\* C4: whatever the run returned, it is the only value any reordering of the same
\* input can return (same rows, same fields, same order).
C4_OutputIndependentOfOrder ==
    Finished => \A other \in Reorderings(rows_read) : Outputs(other) = {output_rows}

----------------------------------------------------------------------------
(* C5 *)

\* the step reads a row equal to one that was read before
RereadsARow ==
    /\ Len(rows_read') = Len(rows_read) + 1
    /\ \E i \in DOMAIN rows_read : rows_read[i] = rows_read'[Len(rows_read')]

\* the statistics lines 178-190 derive from a group
Stats(data) ==
    [works_count |-> Cardinality(data.work_ids),
     specific_works_count |-> Cardinality(data.specific_work_ids),
     journals_count |-> Cardinality(data.source_ids),
     cited_by_count |-> SumValues(data.cited_by_per_work),
     years |-> data.years,
     author_ids |-> data.author_ids,
     institutions |-> data.institutions,
     countries |-> data.countries,
     affiliations |-> data.affiliations]

\* C5: a step that processes a row identical to an earlier one changes no group's
\* state, neither identity index nor the group counter, hence no group's statistics.
C5_IdenticalRowIsNoOp ==
    [][RereadsARow =>
          /\ author_data' = author_data
          /\ group_names' = group_names
          /\ author_id_to_group_id' = author_id_to_group_id
          /\ normalized_name_to_group_id' = normalized_name_to_group_id
          /\ group_id_counter' = group_id_counter
          /\ \A g \in DOMAIN author_data :
                Stats(author_data'[g]) = Stats(author_data[g])]_vars

\* an accepted row with a parseable citation count was read twice, after the first
\* copy created its group, with another group present
C5_Witness ==
    \E i, j \in Accepted :
        /\ i < j
        /\ rows_read[i] = rows_read[j]
        /\ ParseInt(rows_read[i].cited_by_count).ok
        /\ IsFlagged(rows_read[i].references_israel)
        /\ group_id_counter > 1

----------------------------------------------------------------------------
(* C6 *)

\* C6: a value stored in cited_by_per_work of a group is still stored, unchanged,
\* after every step (one value per work id, the first).
C6_FirstWriteWins ==
    [][\A g \in DOMAIN author_data :
          \A w \in DOMAIN author_data[g].cited_by_per_work :
              /\ g \in DOMAIN author_data'
              /\ w \in DOMAIN author_data'[g].cited_by_per_work
              /\ author_data'[g].cited_by_per_work[w] =
                     author_data[g].cited_by_per_work[w]]_vars

\* a later accepted row of the same group and work carried another parseable count
C6_Witness ==
    \E i, j \in Accepted :
        /\ i < j
        /\ resolved[i] = resolved[j]
        /\ WorkOf(i) = WorkOf(j)
        /\ ParseInt(rows_read[i].cited_by_count).ok
        /\ ParseInt(rows_read[j].cited_by_count).ok
        /\ ParseInt(rows_read[i].cited_by_count).val #
               ParseInt(rows_read[j].cited_by_count).val
        /\ author_data[resolved[i]].cited_by_per_work[WorkOf(i)] =
               ParseInt(rows_read[i].cited_by_count).val

----------------------------------------------------------------------------
(* C7 *)

\* the distinct trimmed work ids among the accepted rows resolved to group g
WorksContributed(g) == {WorkOf(i) : i \in RowsOfGroup(g)}
\* the groups the history shows a flagged row for
FlaggedInHistory ==
    {g \in DOMAIN author_data :
        \E i \in RowsOfGroup(g) : IsFlagged(rows_read[i].references_israel)}
OutputIndices == DOMAIN output_rows

\* C7: in every state every group holds exactly the distinct trimmed work ids its
\* accepted rows carried, and once the output is built, for every possible count n
\* and author_ids value, as many output rows have works_count n as there are emitted
\* groups whose rows contributed n distinct work ids.
C7_WorksCountIsDistinctWorks ==
    /\ \A g \in DOMAIN author_data :
          Cardinality(author_data[g].work_ids) = Cardinality(WorksContributed(g))
    /\ Finished =>
          \A n \in 0..Len(rows_read) :
            \A a \in {JoinSorted(author_data[g].author_ids) : g \in DOMAIN author_data} :
              Cardinality({i \in OutputIndices :
                              /\ output_rows[i].works_count = n
                              /\ output_rows[i].author_ids = a}) =
              Cardinality({g \in FlaggedInHistory :
                              /\ Cardinality(WorksContributed(g)) = n
                              /\ JoinSorted(author_data[g].author_ids) = a})

\* the output holds a group to which three accepted rows contributed two distinct
\* work ids, one of them written two ways
C7_Witness ==
    /\ Finished
    /\ \E g \in FlaggedInHistory :
          /\ Cardinality(RowsOfGroup(g)) = 3
          /\ Cardinality(WorksContributed(g)) = 2
          /\ Cardinality({rows_read[i].id : i \in RowsOfGroup(g)}) = 3
          /\ \E i \in OutputIndices : output_rows[i].works_count = 2

----------------------------------------------------------------------------
(* C8 *)

\* C8: once the output is built, no output row has specific_works_count 0, every
\* group with a flagged work has exactly one output row and the other groups none:
\* the rows are as many as the groups with a flagged work, the rest is counted as
\* filtered, and rows carrying a given (author_ids, works_count,
\* specific_works_count) are as many as the flagged groups with these values.
C8_EmittedIffFlagged ==
    Finished =>
        LET flagged == {g \in DOMAIN author_data :
                           author_data[g].specific_work_ids # {}}
            Sig(d) == <<JoinSorted(d.author_ids), Cardinality(d.work_ids),
                        Cardinality(d.specific_work_ids)>>
            RowSig(r) == <<r.author_ids, r.works_count, r.specific_works_count>>
        IN  /\ \A i \in OutputIndices : output_rows[i].specific_works_count >= 1
            /\ Len(output_rows) = Cardinality(flagged)
            /\ filtered_count = Cardinality(DOMAIN author_data \ flagged)
            /\ \A g \in flagged :
                  Cardinality({i \in OutputIndices :
                                  RowSig(output_rows[i]) = Sig(author_data[g])}) =
                  Cardinality({h \in flagged :
                                  Sig(author_data[h]) = Sig(author_data[g])})

\* the output is built from a store with a group that is dropped and two that are
\* emitted
C8_Witness ==
    /\ Finished
    /\ filtered_count >= 1
    /\ Len(output_rows) >= 2
    /\ \E g \in DOMAIN author_data :
          author_data[g].specific_work_ids = {} /\ author_data[g].work_ids # {}

----------------------------------------------------------------------------
(* C9 *)

\* C9: once the output is built, of any two output rows the earlier has the larger
\* works_count, or the same works_count and an author_name that is not greater.
C9_SortedByWorksThenName ==
    Finished =>
        \A i, j \in OutputIndices :
            i < j =>
                \/ output_rows[i].works_count > output_rows[j].works_count
                \/ /\ output_rows[i].works_count = output_rows[j].works_count
                   /\ ~StrLess(output_rows[j].author_name, output_rows[i].author_name)

----------------------------------------------------------------------------
(* C10 *)

\* the smallest string of a non-empty set
LeastString(S) == CHOOSE x \in S : \A y \in S \ {x} : StrLess(x, y)

\* C10: once the output is built, it is the output whose author_name is, for every
\* emitted group, the title-cased most frequent normalized form of the group's raw
\* names, the lexicographically smallest one among those of highest count.
C10_NameIsSmallestMostCommonForm ==
    Finished =>
        output_rows =
            FinalRows(Store, [g \in EmittedGroups(Store) |->
                                 LeastString(MostCommonForms(group_names[g]))])

----------------------------------------------------------------------------
(* C11 *)

\* the step reads one more row; NewRow is that row
ReadsRow == Len(rows_read') = Len(rows_read) + 1
NewRow == rows_read'[Len(rows_read')]
EmptyAfterStrip(v) == ~IsNone(v) /\ Strip(v) = <<>>

\* C11: a step that reads a row whose author_name or id is empty after trimming
\* allocates no group id, adds nothing to either index and changes no group; only
\* row_count advances, and reading goes on.
C11_EmptyRequiredFieldIsRejected ==
    [][(ReadsRow /\ ~IsNone(NewRow.author_id)
          /\ (EmptyAfterStrip(NewRow.author_name)
                \/ (~IsNone(NewRow.author_name) /\ EmptyAfterStrip(NewRow.id)))) =>
          /\ group_id_counter' = group_id_counter
          /\ author_id_to_group_id' = author_id_to_group_id
          /\ normalized_name_to_group_id' = normalized_name_to_group_id
          /\ author_data' = author_data
          /\ group_names' = group_names
          /\ row_count' = row_count + 1
          /\ resolved' = Append(resolved, SKIPPED)
          /\ pc' = pc]_vars

\* a row with an empty work id and a row with an empty name were both dropped
\* after a group of the same author_id had been created
C11_Witness ==
    \E i, j, k \in DOMAIN resolved :
        /\ i < j /\ i < k
        /\ resolved[i] # SKIPPED
        /\ resolved[j] = SKIPPED /\ resolved[k] = SKIPPED
        /\ NameOf(j) # <<>> /\ WorkOf(j) = <<>>
        /\ NameOf(k) = <<>>
        /\ IdOf(j) = IdOf(i)
        /\ row_count = 3
        /\ group_id_counter = 1

----------------------------------------------------------------------------
(* C12 *)

\* the record of group g before the step, the default record if g is new
Before(g) == IF g \in DOMAIN author_data THEN author_data[g] ELSE NewAuthorData

\* C12: a step that reads a row which is not dropped and whose cited_by_count does
\* not parse as an integer raises nothing, leaves cited_by_per_work of the row's
\* group as it was, and merges the name, author id, work id, source, flag, year
\* and multi-valued fields of the row into that group.
C12_UnparsableCitedByIsIgnored ==
    [][(ReadsRow /\ ~RowRaises(NewRow) /\ ~RowSkipped(NewRow)
          /\ ~ParseInt(NewRow.cited_by_count).ok) =>
          LET g == resolved'[Len(resolved')]
              d == author_data'[g]
          IN  /\ pc' = "reading"
              /\ Len(resolved') = Len(rows_read')
              /\ d.cited_by_per_work = Before(g).cited_by_per_work
              /\ d.author_names = Before(g).author_names \cup {Strip(NewRow.author_name)}
              /\ d.author_ids = Before(g).author_ids \cup
                     ({Strip(NewRow.author_id)} \ {<<>>})
              /\ d.work_ids = Before(g).work_ids \cup {Strip(NewRow.id)}
              /\ d.source_ids = Before(g).source_ids \cup
                     ({Strip(NewRow.source_id)} \ {<<>>})
              /\ d.specific_work_ids = Before(g).specific_work_ids \cup
                     (IF Lower(NewRow.references_israel) \in
                            {<<"y","e","s">>, <<"t","r","u","e">>, <<"1">>}
                      THEN {Strip(NewRow.id)} ELSE {})
              /\ d.years = Before(g).years \cup YearsOf(NewRow.publication_date)
              /\ d.institutions = Before(g).institutions \cup
                     MultiValues(NewRow.institutions)
              /\ d.countries = Before(g).countries \cup MultiValues(NewRow.countries)
              /\ d.affiliations = Before(g).affiliations \cup
                     MultiValues(NewRow.affiliations_comment)]_vars

\* rows whose count is letters, empty and None were aggregated; one of them is
\* flagged and its work has no stored count
C12_Witness ==
    \E i, j, k \in Accepted :
        /\ rows_read[i].cited_by_count = <<"a","b","c">>
        /\ rows_read[j].cited_by_count = <<>>
        /\ IsNone(rows_read[k].cited_by_count)
        /\ IsFlagged(rows_read[i].references_israel)
        /\ WorkOf(i) \in author_data[resolved[i]].specific_work_ids
        /\ WorkOf(i) \notin DOMAIN author_data[resolved[i]].cited_by_per_work

----------------------------------------------------------------------------
(* C13 *)

\* C13: no row ends the run: every row read, a row with an absent field included,
\* is either dropped or aggregated, and the run goes on to the next row.
C13_NoRowTerminatesRun ==
    /\ pc # "crashed"
    /\ Len(resolved) = Len(rows_read)

----------------------------------------------------------------------------
(* C14 *)

\* C14: a group never holds both a row with an author_id and a row without one,
\* whatever their names, and the group of every aggregated row is still a group
\* of author_data in every later state.
C14_IdentifiedAndNameOnlyNeverUnified ==
    /\ \A i \in WithId, j \in WithoutId : resolved[i] # resolved[j]
    /\ \A k \in DOMAIN author_id_to_group_id, n \in DOMAIN normalized_name_to_group_id :
           author_id_to_group_id[k] # normalized_name_to_group_id[n]
    /\ \A i \in Accepted : resolved[i] \in DOMAIN author_data

\* a name-only row and an identified row with equal normalized names were read, in
\* both orders, and the run reached its end with two or more groups
C14_Witness ==
    /\ Finished
    /\ \E i \in WithId, j \in WithoutId :
           /\ normalize_name(NameOf(i)) = normalize_name(NameOf(j))
           /\ \E k \in WithId : k > j /\ IdOf(k) = IdOf(i)
    /\ Cardinality(DOMAIN author_data) >= 2

----------------------------------------------------------------------------
(* C15 *)

\* every key of index d keeps its group in the next state e
KeepsMappings(d, e) == \A k \in DOMAIN d : k \in DOMAIN e /\ e[k] = d[k]
\* the keys added to index d by the step
NewKeys(d, e) == DOMAIN e \ DOMAIN d

\* C15: in every step, every key of either index keeps its group id; a new key or
\* a new group takes the value of group_id_counter, which then grows by one and
\* otherwise never changes, so every group id is below the counter and is given
\* once; no group is deleted and no group loses a member of any of its sets.
C15_GroupIdsAreStable ==
    [][/\ KeepsMappings(author_id_to_group_id, author_id_to_group_id')
       /\ KeepsMappings(normalized_name_to_group_id, normalized_name_to_group_id')
       /\ LET new == NewKeys(author_id_to_group_id, author_id_to_group_id')
                      \cup NewKeys(normalized_name_to_group_id,
                                   normalized_name_to_group_id')
              fresh == DOMAIN author_data' \ DOMAIN author_data
          IN  /\ \A k \in NewKeys(author_id_to_group_id, author_id_to_group_id') :
                     author_id_to_group_id'[k] = group_id_counter
              /\ \A k \in NewKeys(normalized_name_to_group_id,
                                  normalized_name_to_group_id') :
                     normalized_name_to_group_id'[k] = group_id_counter
              /\ fresh \subseteq {group_id_counter}
              /\ Cardinality(new) <= 1
              /\ group_id_counter' =
                     IF new # {} THEN group_id_counter + 1 ELSE group_id_counter
              /\ (fresh # {}) <=> (new # {})
       /\ \A g \in DOMAIN author_data' : g \in 0..(group_id_counter' - 1)
       /\ \A g \in DOMAIN author_data :
              /\ g \in DOMAIN author_data'
              /\ author_data[g].work_ids \subseteq author_data'[g].work_ids
              /\ author_data[g].author_names \subseteq author_data'[g].author_names
              /\ author_data[g].author_ids \subseteq author_data'[g].author_ids
              /\ DOMAIN author_data[g].cited_by_per_work \subseteq
                     DOMAIN author_data'[g].cited_by_per_work
       /\ \A i \in DOMAIN resolved : resolved'[i] = resolved[i]]_vars

\* a key was looked up again after another group had been allocated, and got the
\* group it had before
C15_Witness ==
    /\ group_id_counter = 2
    /\ \E i, j, k \in Accepted :
           /\ i < j /\ j < k
           /\ resolved[i] = 0 /\ resolved[j] = 1 /\ resolved[k] = 0
           /\ author_data[0].work_ids # {WorkOf(i)}

----------------------------------------------------------------------------
(* C16 *)

\* the count the history gives work w of group g: that of the first accepted row
\* of g with work w whose cited_by_count parses, 0 if there is none
HistCitedOfWork(g, w) ==
    LET S == {i \in RowsOfGroup(g) :
                 WorkOf(i) = w /\ ParseInt(rows_read[i].cited_by_count).ok}
    IN  IF S = {} THEN 0
        ELSE ParseInt(rows_read[Min(S)].cited_by_count).val

RECURSIVE HistCitedOver(_, _)
HistCitedOver(g, works) ==
    IF works = {} THEN 0
    ELSE LET w == CHOOSE x \in works : TRUE
         IN  HistCitedOfWork(g, w) + HistCitedOver(g, works \ {w})

\* the distinct trimmed work ids of the flagged accepted rows of group g
FlaggedWorksContributed(g) ==
    {WorkOf(i) : i \in {j \in RowsOfGroup(g) :
                           IsFlagged(rows_read[j].references_israel)}}

\* the counts the history gives group g, and those an output row carries
HistCounts(g) ==
    [author_ids |-> JoinSorted({IdOf(i) : i \in RowsOfGroup(g)} \ {<<>>}),
     works_count |-> Cardinality(WorksContributed(g)),
     specific_works_count |-> Cardinality(FlaggedWorksContributed(g)),
     cited_by_count |-> HistCitedOver(g, WorksContributed(g))]
RowCounts(r) ==
    [author_ids |-> r.author_ids,
     works_count |-> r.works_count,
     specific_works_count |-> r.specific_works_count,
     cited_by_count |-> r.cited_by_count]

\* Example 1 of the specification: one author_id, two names, two works
Example1Row1 ==
    Row(NameAl, IdA1, WorkW1, <<"Y","e","s">>, <<"5">>, Date2020, SrcS1,
        <<"M",";"," ","T">>, <<"I","L">>, <<>>)
Example1Row2 ==
    Row(NameBo, IdA1Padded, WorkW2, <<"N","o">>, <<"3">>, Date2021, SrcS1,
        <<"T",";",";">>, <<>>, <<"x">>)

\* C16: once the output is built, as many output rows carry given values of
\* author_ids, works_count, specific_works_count and cited_by_count as there are
\* emitted groups to which the history gives these values, cited_by_count being
\* the sum over the group's distinct works of the stored (first parsed) count; and
\* the two rows of Example 1 alone give one row with 2 works, 1 flagged work, 8
\* citations and the years 2020 and 2021.
C16_OneRecordSumsPerWorkCitations ==
    Finished =>
        /\ \A c \in {HistCounts(g) : g \in FlaggedInHistory}
                       \cup {RowCounts(output_rows[i]) : i \in OutputIndices} :
               Cardinality({i \in OutputIndices : RowCounts(output_rows[i]) = c}) =
               Cardinality({g \in FlaggedInHistory : HistCounts(g) = c})
        /\ rows_read = <<Example1Row1, Example1Row2>> =>
               /\ Len(output_rows) = 1
               /\ output_rows[1].works_count = 2
               /\ output_rows[1].specific_works_count = 1
               /\ output_rows[1].cited_by_count = 8
               /\ output_rows[1].min_year = <<2020>>
               /\ output_rows[1].max_year = <<2021>>

\* Example 1 was run to its output, one group having got two names
C16_Witness ==
    /\ pc = "done"
    /\ rows_read = <<Example1Row1, Example1Row2>>
    /\ Cardinality(author_data[0].author_names) = 2
    /\ Len(output_rows) = 1
    /\ output_rows[1].cited_by_count = 8

----------------------------------------------------------------------------
(* C17 *)

\* C17: when the run has been ended from outside, the output path does not exist
\* or holds the complete result, header and every output row.
C17_NoPartialOutputFile ==
    pc = "aborted" => (~out_file.exists \/ out_file = CompleteFile(output_rows))

----------------------------------------------------------------------------
(* C18 *)

\* v is word up to the case of its letters
EqualIgnoringCase(v, word) ==
    /\ Len(v) = Len(word)
    /\ \A k \in DOMAIN v : LowerChar(v[k]) = word[k]
FlagIsTrue(v) ==
    \/ EqualIgnoringCase(v, <<"y","e","s">>)
    \/ EqualIgnoringCase(v, <<"t","r","u","e">>)
    \/ EqualIgnoringCase(v, <<"1">>)

\* C18: in every state, for every group, specific_work_ids is within work_ids and
\* holds exactly the work ids of the group's accepted rows whose references_israel
\* is yes, true or 1 in any case.
C18_SpecificWorksAreFlaggedWorks ==
    \A g \in DOMAIN author_data :
        /\ author_data[g].specific_work_ids \subseteq author_data[g].work_ids
        /\ \A w \in author_data[g].work_ids \cup author_data[g].specific_work_ids :
               w \in author_data[g].specific_work_ids <=>
                   \E i \in RowsOfGroup(g) :
                       WorkOf(i) = w /\ FlagIsTrue(rows_read[i].references_israel)

\* one group has a work flagged by a value with an upper-case letter, also carried
\* by a row that is not flagged, and a work that no row flags
C18_Witness ==
    \E i, j, k \in Accepted :
        /\ resolved[i] = resolved[j] /\ resolved[j] = resolved[k]
        /\ rows_read[i].references_israel = <<"Y","e","s">>
        /\ WorkOf(j) = WorkOf(i)
        /\ ~FlagIsTrue(rows_read[j].references_israel)
        /\ ~FlagIsTrue(rows_read[k].references_israel)
        /\ WorkOf(i) \in author_data[resolved[i]].specific_work_ids
        /\ WorkOf(k) \in author_data[resolved[i]].work_ids
                            \ author_data[resolved[i]].specific_work_ids

----------------------------------------------------------------------------
(* C19 *)

\* the publication_date has 4 or more characters, the first 4 parse as an integer
\* and that integer is in [1900, 2100]
HasValidYear(d) ==
    /\ ~IsNone(d)
    /\ Len(d) >= 4
    /\ ParseInt(SubSeq(d, 1, 4)).ok
    /\ ParseInt(SubSeq(d, 1, 4)).val \in 1900..2100
YearsContributed(g) ==
    {ParseInt(SubSeq(rows_read[i].publication_date, 1, 4)).val :
        i \in {j \in RowsOfGroup(g) : HasValidYear(rows_read[j].publication_date)}}

\* C19: in every state the years of every group are integers of [1900, 2100] and
\* are exactly the years of the group's accepted rows that have a valid year; a
\* row without one adds no year, and its work id is in the group all the same.
C19_YearsAreValidYearsOfRows ==
    \A g \in DOMAIN author_data :
        /\ author_data[g].years \subseteq 1900..2100
        /\ author_data[g].years = YearsContributed(g)
        /\ \A i \in RowsOfGroup(g) : WorkOf(i) \in author_data[g].work_ids

\* a group got a year from one row and none from a row dated 1899 or 2101, and
\* another group has a work and no year from a row whose date is short, not a
\* number or absent
C19_Witness ==
    \E i, j, k \in Accepted :
        /\ resolved[i] = resolved[j]
        /\ HasValidYear(rows_read[i].publication_date)
        /\ rows_read[j].publication_date \in {Date1899, Date2101}
        /\ Cardinality(author_data[resolved[i]].years) = 1
        /\ Cardinality(author_data[resolved[i]].work_ids) >= 2
        /\ rows_read[k].publication_date \in {DateShort, DateBad, NONE}
        /\ author_data[resolved[k]].years = {}
        /\ WorkOf(k) \in author_data[resolved[k]].work_ids

----------------------------------------------------------------------------
(* C20 *)

LeastYear(S) == CHOOSE x \in S : \A y \in S : x <= y
GreatestYear(S) == CHOOSE x \in S : \A y \in S : y <= x

\* the years columns the history gives group g, and those of an output row
HistYearColumns(g) ==
    [author_ids |-> JoinSorted({IdOf(i) : i \in RowsOfGroup(g)} \ {<<>>}),
     works_count |-> Cardinality(WorksContributed(g)),
     min_year |-> IF YearsContributed(g) = {} THEN <<>>
                  ELSE <<LeastYear(YearsContributed(g))>>,
     max_year |-> IF YearsContributed(g) = {} THEN <<>>
                  ELSE <<GreatestYear(YearsContributed(g))>>]
RowYearColumns(r) ==
    [author_ids |-> r.author_ids, works_count |-> r.works_count,
     min_year |-> r.min_year, max_year |-> r.max_year]

\* C20: once the output is built, every output row has both year columns blank or
\* both set with min_year <= max_year, and as many output rows carry given year
\* columns (with given author_ids and works_count) as there are emitted groups
\* whose valid years have that minimum and maximum, blank when there is none.
C20_MinMaxYearOfGroup ==
    Finished =>
        /\ \A i \in OutputIndices :
               LET r == output_rows[i]
               IN  \/ r.min_year = <<>> /\ r.max_year = <<>>
                   \/ /\ Len(r.min_year) = 1 /\ Len(r.max_year) = 1
                      /\ r.min_year[1] <= r.max_year[1]
        /\ \A c \in {HistYearColumns(g) : g \in FlaggedInHistory}
                       \cup {RowYearColumns(output_rows[i]) : i \in OutputIndices} :
               Cardinality({i \in OutputIndices : RowYearColumns(output_rows[i]) = c}) =
               Cardinality({g \in FlaggedInHistory : HistYearColumns(g) = c})

\* the output has a row with two different years and a row with blank years
C20_Witness ==
    /\ Finished
    /\ \E i, j \in OutputIndices :
           /\ Len(output_rows[i].min_year) = 1
           /\ output_rows[i].min_year[1] < output_rows[i].max_year[1]
           /\ output_rows[j].min_year = <<>> /\ output_rows[j].max_year = <<>>

----------------------------------------------------------------------------
(* C21 *)

\* the groups, their names, both indices, the counter and the history of rows
StreamState ==
    <<author_data, group_names, author_id_to_group_id, normalized_name_to_group_id,
      group_id_counter, row_count, rows_read, resolved>>

\* C21: every step that begins finalization or follows its beginning (filter,
\* names, derived fields, sort, write) reads no row and leaves every group, both
\* indices and the counter as they were, and never returns to reading: all merges
\* happen before the one step that ends the streaming phase.
C21_GroupsCloseOnceTogether ==
    [][(Finished \/ Finished') =>
          /\ StreamState' = StreamState
          /\ pc' # "reading"
          /\ Finished']_vars

\* the run ended after three rows were merged into two groups, one emitted and one
\* filtered, and the groups still hold what the rows gave them
C21_Witness ==
    /\ pc = "done"
    /\ Cardinality(Accepted) = 3
    /\ Cardinality(DOMAIN author_data) = 2
    /\ Len(output_rows) = 1 /\ filtered_count = 1
    /\ \A g \in DOMAIN author_data : author_data[g].work_ids = WorksContributed(g)

----------------------------------------------------------------------------
(* C22 *)

\* the step aggregates a row; TargetGroup is the group it resolved to
AggregatesRow ==
    /\ ReadsRow
    /\ Len(resolved') = Len(resolved) + 1
    /\ resolved'[Len(resolved')] # SKIPPED
TargetGroup == resolved'[Len(resolved')]

\* C22: a step that aggregates a row changes at most the group the row resolves
\* to: every other group is still there with the same record (all sets and
\* cited_by_per_work) and the same names, and no group but that one is created.
C22_RowMutatesOnlyItsGroup ==
    [][AggregatesRow =>
          /\ \A g \in DOMAIN author_data \ {TargetGroup} :
                /\ g \in DOMAIN author_data'
                /\ author_data'[g] = author_data[g]
                /\ group_names'[g] = group_names[g]
          /\ DOMAIN author_data' = DOMAIN author_data \cup {TargetGroup}
          /\ DOMAIN group_names' = DOMAIN author_data']_vars

\* with two groups present, a row was merged into the first and changed it, and
\* the second holds only what its own row gave it
C22_Witness ==
    /\ pc = "reading"
    /\ resolved = <<0, 1, 0>>
    /\ Cardinality(author_data[0].work_ids) = 2
    /\ author_data[1].work_ids = {WorkOf(2)}
    /\ author_data[1].author_names = {NameOf(2)}
    /\ author_data[0].work_ids \cap author_data[1].work_ids = {}

----------------------------------------------------------------------------
(* C23 *)

\* resolution by the two indices alone: an author_id absent from
\* author_id_to_group_id gets a new group, no group is searched
ResolveGroupByIndex(st, author_id, author_name) ==
    LET index == IF author_id # <<>> THEN "author_id_to_group_id"
                 ELSE "normalized_name_to_group_id"
        key == IF author_id # <<>> THEN author_id ELSE normalize_name(author_name)
    IN  IF key \in DOMAIN st[index]
        THEN [gid |-> st[index][key], st |-> st]
        ELSE [gid |-> st.group_id_counter,
              st |-> [st EXCEPT !.group_id_counter = @ + 1,
                                ![index] = DictSet(@, key, st.group_id_counter)]]

\* the rows the loop would aggregate
AcceptableRows == {row \in Rows : ~RowRaises(row) /\ ~RowSkipped(row)}

\* C23: in every state the rescan finds nothing the index does not have: every
\* member of a group's author_ids is a key of author_id_to_group_id mapped to that
\* group, and for every row the loop could read next, resolution with the rescan
\* and resolution by the index alone give the same group and the same indices.
C23_RescanNeverFindsAGroup ==
    /\ \A g \in DOMAIN author_data :
           \A a \in author_data[g].author_ids :
               /\ a \in DOMAIN author_id_to_group_id
               /\ author_id_to_group_id[a] = g
    /\ pc = "reading" =>
           \A row \in AcceptableRows :
               ResolveGroup(Store, Strip(row.author_id), Strip(row.author_name)) =
               ResolveGroupByIndex(Store, Strip(row.author_id),
                                   Strip(row.author_name))

\* a row with an author_id absent from the index was resolved while a group with
\* another author_id existed (the rescan ran over it), the id being padded
C23_Witness ==
    \E i, j \in WithId :
        /\ i < j
        /\ IdOf(i) # IdOf(j)
        /\ resolved[i] # resolved[j]
        /\ rows_read[i].author_id # IdOf(i)
        /\ author_data[resolved[i]].author_ids = {IdOf(i)}

----------------------------------------------------------------------------
(* C25 *)

\* the row that created group g
CreatorOf(g) == Min(RowsOfGroup(g))
NameCreated == {g \in DOMAIN author_data : IdOf(CreatorOf(g)) = <<>>}

\* C25: in every state a group has at most one author_id; a group created by a
\* row with an author_id has exactly that id, and a group created by a row without
\* one has none and all its display names normalize to the creator's key, so its
\* canonical name has one candidate and its output row an empty author_ids.
C25_OneIdentityKeyPerGroup ==
    /\ \A g \in DOMAIN author_data :
           /\ Cardinality(author_data[g].author_ids) <= 1
           /\ IF g \in NameCreated
              THEN /\ author_data[g].author_ids = {}
                   /\ \A n \in author_data[g].author_names \cup group_names[g] :
                          normalize_name(n) = normalize_name(NameOf(CreatorOf(g)))
                   /\ Cardinality(MostCommonForms(group_names[g])) = 1
              ELSE author_data[g].author_ids = {IdOf(CreatorOf(g))}
    /\ Finished =>
           Cardinality({i \in OutputIndices : output_rows[i].author_ids = <<>>}) =
           Cardinality(NameCreated \cap FlaggedInHistory)

\* the output has a row of a name-created group that got two display names and a
\* row of a group whose author_id was written two ways
C25_Witness ==
    /\ Finished
    /\ \E g \in NameCreated \cap FlaggedInHistory :
           Cardinality(author_data[g].author_names) = 2
    /\ \E i \in OutputIndices : output_rows[i].author_ids = <<>>
    /\ \E i \in WithId : rows_read[i].author_id # IdOf(i)

----------------------------------------------------------------------------
(* C26 *)

CitedParses(i) == ParseInt(rows_read[i].cited_by_count).ok
CitedValue(i) == ParseInt(rows_read[i].cited_by_count).val

\* C26: in every state, for every aggregated row whose cited_by_count parses and
\* before which no row of the same group and work had a count that parses,
\* cited_by_per_work of the group holds that row's value for the work, rows with
\* unparsable counts before it notwithstanding; and a work none of whose rows
\* parses has no entry. Once the output is built, a lone emitted group's
\* cited_by_count adds these values.
C26_FirstParseableCountIsStored ==
    /\ \A i \in Accepted :
           LET g == resolved[i]
               earlier == {j \in RowsOfGroup(g) : j < i /\ WorkOf(j) = WorkOf(i)}
           IN  /\ (CitedParses(i) /\ \A j \in earlier : ~CitedParses(j)) =>
                      /\ WorkOf(i) \in DOMAIN author_data[g].cited_by_per_work
                      /\ author_data[g].cited_by_per_work[WorkOf(i)] = CitedValue(i)
               /\ (~CitedParses(i) /\ \A j \in RowsOfGroup(g) :
                                          WorkOf(j) = WorkOf(i) => ~CitedParses(j)) =>
                      WorkOf(i) \notin DOMAIN author_data[g].cited_by_per_work
    /\ (Finished /\ Cardinality(DOMAIN author_data) = 1 /\ Len(output_rows) = 1) =>
           output_rows[1].cited_by_count = HistCitedOver(0, WorksContributed(0))

\* the first row of a work had an unparsable count, a later row of the same group
\* and work a parseable one, which is stored and is the output's cited_by_count
C26_Witness ==
    /\ Finished
    /\ Len(output_rows) = 1
    /\ \E i, j \in Accepted :
           /\ i < j
           /\ resolved[i] = resolved[j]
           /\ WorkOf(i) = WorkOf(j)
           /\ ~CitedParses(i) /\ CitedParses(j)
           /\ CitedValue(j) # 0
           /\ author_data[resolved[j]].cited_by_per_work[WorkOf(j)] = CitedValue(j)
           /\ output_rows[1].cited_by_count = CitedValue(j)

----------------------------------------------------------------------------
(* C27 *)

\* C27: in every state every group has a work id and a display name and the keys
\* of its cited_by_per_work are among its work ids, and every output row has
\* 1 <= specific_works_count <= works_count.
C27_GroupsAndRowsAreWellFormed ==
    /\ \A g \in DOMAIN author_data :
           /\ author_data[g].work_ids # {}
           /\ author_data[g].author_names # {}
           /\ g \in DOMAIN group_names /\ group_names[g] # {}
           /\ DOMAIN author_data[g].cited_by_per_work \subseteq author_data[g].work_ids
    /\ \A i \in OutputIndices :
           /\ 1 <= output_rows[i].specific_works_count
           /\ output_rows[i].specific_works_count <= output_rows[i].works_count

\* the output has a row with fewer flagged works than works, from a group one of
\* whose work ids was written with padding and has a stored count
C27_Witness ==
    /\ Finished
    /\ \E i \in OutputIndices :
           output_rows[i].specific_works_count < output_rows[i].works_count
    /\ \E i \in Accepted :
           /\ rows_read[i].id # WorkOf(i)
           /\ WorkOf(i) \in DOMAIN author_data[resolved[i]].cited_by_per_work

----------------------------------------------------------------------------
(* C24 *)

\* lines 70 and 89: the key a row is resolved by
IdentityKey(row) ==
    IF Strip(row.author_id) # <<>> THEN <<"author_id", Strip(row.author_id)>>
    ELSE <<"normalized_name", normalize_name(Strip(row.author_name))>>

\* two worker lanes; a partition is a function from identity keys to lanes
Lanes == {"lane0", "lane1"}
Partitions(rows) == [{IdentityKey(rows[i]) : i \in DOMAIN rows} -> Lanes]

\* the rows of lane l, in input order
RECURSIVE LaneRows(_, _, _)
LaneRows(rows, h, l) ==
    IF rows = <<>> THEN <<>>
    ELSE LET rest == LaneRows(SubSeq(rows, 1, Len(rows) - 1), h, l)
             last == rows[Len(rows)]
         IN  IF h[IdentityKey(last)] = l THEN Append(rest, last) ELSE rest

\* each lane runs the streaming phase on its rows; the lanes' output rows are
\* concatenated, lane0 first, and sorted by line 193
ShardedOutputs(rows, h) ==
    LET s0 == RunStream(LaneRows(rows, h, "lane0"))
        s1 == RunStream(LaneRows(rows, h, "lane1"))
    IN  {SortByWorksDesc(RowsFrom(s0, c0, 0) \o RowsFrom(s1, c1, 0)) :
            c0 \in NameChoices(s0), c1 \in NameChoices(s1)}

\* C24: for every partition of the identity keys over the lanes, rows of one
\* group are in one lane, and the sharded run can return exactly what the
\* sequential run on the same input can return.
C24_ShardedEqualsSequential ==
    Finished =>
        \A h \in Partitions(rows_read) :
            /\ \A i, j \in Accepted :
                   resolved[i] = resolved[j] =>
                       h[IdentityKey(rows_read[i])] = h[IdentityKey(rows_read[j])]
            /\ ShardedOutputs(rows_read, h) = Outputs(rows_read)

----------------------------------------------------------------------------
(* C28 *)

\* C28: in every state the groups are exactly the ids 0 .. group_id_counter - 1,
\* each with one entry of author_data and of group_names, and at the end of a
\* successful run the output rows and the filtered groups together are as many as
\* the groups formed, which is the final value of the counter.
C28_SummaryCountsAreConsistent ==
    /\ DOMAIN author_data = 0..(group_id_counter - 1)
    /\ DOMAIN group_names = DOMAIN author_data
    /\ pc = "done" =>
           /\ Len(output_rows) + filtered_count = Cardinality(DOMAIN author_data)
           /\ Cardinality(DOMAIN author_data) = group_id_counter
           /\ Len(out_file.rows) = Len(output_rows)
           /\ row_count = Len(rows_read)

\* a run ended with three groups, some emitted and some filtered
C28_Witness ==
    /\ pc = "done"
    /\ group_id_counter = 3
    /\ filtered_count >= 1
    /\ Len(output_rows) >= 1

----------------------------------------------------------------------------
(* C30 *)

\* group g comes before group h in works_count order, ties by group id
ComesBefore(g, h) ==
    \/ Cardinality(author_data[g].work_ids) > Cardinality(author_data[h].work_ids)
    \/ /\ Cardinality(author_data[g].work_ids) = Cardinality(author_data[h].work_ids)
       /\ g < h
PlaceOf(g) == 1 + Cardinality({h \in FlaggedInHistory : ComesBefore(h, g)})

\* C30: once the output is built, the row of each emitted group stands at the
\* place its works_count gives it, after the rows of more works and after the rows
\* of as many works whose groups were created earlier.
C30_SortIsStableOnWorksCount ==
    Finished =>
        /\ Len(output_rows) = Cardinality(FlaggedInHistory)
        /\ \A g \in FlaggedInHistory :
               \E form \in MostCommonForms(group_names[g]) :
                   output_rows[PlaceOf(g)] =
                       BuildRow(author_data[g], group_names[g], form)

\* two rows of equal works_count stand in the order their groups were created,
\* which is not the order of their names
C30_Witness ==
    /\ Finished
    /\ \E i, j \in OutputIndices :
           /\ i < j
           /\ output_rows[i].works_count = output_rows[j].works_count
           /\ StrLess(output_rows[j].author_name, output_rows[i].author_name)
           /\ \E g, h \in FlaggedInHistory :
                  /\ g < h
                  /\ PlaceOf(g) = i /\ PlaceOf(h) = j

----------------------------------------------------------------------------
(* C29 *)

\* C29: the output file changes only in steps taken after the input has been
\* consumed and the output rows built and sorted, steps that read no row and leave
\* the output rows as they are; while rows are read, and when reading ends in an
\* error or is interrupted, the file is as it was before the run.
C29_OutputOpenedAfterInputConsumed ==
    [][/\ out_file' # out_file =>
             /\ pc \in {"sorted", "opened", "writing"}
             /\ rows_read' = rows_read
             /\ output_rows' = output_rows
             /\ Len(output_rows) = Cardinality(FlaggedInHistory)
       /\ pc = "reading" => (out_file = NoFile /\ out_file' = NoFile)
       /\ pc \in {"crashed", "aborted"} => out_file' = out_file]_vars

\* the run was interrupted while reading, after it had read a flagged row, and
\* there is no output file
C29_Witness ==
    /\ pc = "aborted"
    /\ Len(rows_read) = 2
    /\ FlaggedInHistory # {}
    /\ output_rows = <<>>
    /\ out_file = NoFile

====
